---- MODULE Spec2Model ----
(***************************************************************************)
(* The accident-data reconciliation pipeline of src/utils/clean_data.py:   *)
(* the field parsers, the severity resolver, the three-table merge, the    *)
(* persisted cleaned file and the in-process cache of load_clean_data.     *)
(*                                                                         *)
(* Conventions.  A table cell is <<>> when pandas holds a null there       *)
(* (None, NaN, NaT: everything pd.isna answers True for) and <<v>> when it *)
(* holds the value v.  A text is a sequence of one-character strings.      *)
(* A table is a sequence of rows (records), in the order pandas keeps.     *)
(***************************************************************************)
EXTENDS Integers, Sequences, FiniteSets, TLC

VARIABLES
    raw,          \* the three raw files under RAW_DATA_DIR
    cleaned,      \* CLEANED_FILE: NoFile, or the csv rows it holds
    cache,        \* the lru_cache of load_clean_data in the running process
    last,         \* what the last call did (observation of the call)
    loadRuns,     \* clean_data invocations made by load_clean_data so far
    loadDone,     \* those of them that completed
    refreshed,    \* whether clean_data was called explicitly so far
    firstLoad,    \* the table the first returning load_clean_data call gave
    hrmn_value,   \* argument of _extract_hour
    hour,         \* result of _extract_hour
    usagers_arg,  \* argument of _worst_severity
    severity      \* result of _worst_severity

vars == <<raw, cleaned, cache, last, loadRuns, loadDone, refreshed, firstLoad,
          hrmn_value, hour, usagers_arg, severity>>

-----------------------------------------------------------------------------
(* Bounds of the model *)

MaxRows == 3          \* rows of the three raw tables together, in a pipeline run
MaxCasualties == 3    \* rows of the casualty table given to _worst_severity
MaxHrmnLen == 5       \* characters of an hrmn value
MaxLoadRuns == 2      \* clean_data invocations load_clean_data may make
MaxLumRows == 2       \* rows of the characteristics table in a lighting run
MaxCoordLen == 3      \* characters of a lat or long token

-----------------------------------------------------------------------------
(* Cells and texts *)

Null == <<>>
Some(v) == <<v>>
IsNull(c) == c = <<>>
Val(c) == c[1]

DigitChars == {"0", "1", "2", "3", "4", "5", "6", "7", "8", "9"}

DigitVal(c) ==
    CASE c = "0" -> 0 [] c = "1" -> 1 [] c = "2" -> 2 [] c = "3" -> 3
      [] c = "4" -> 4 [] c = "5" -> 5 [] c = "6" -> 6 [] c = "7" -> 7
      [] c = "8" -> 8 [] c = "9" -> 9

\* str.isdigit over the model's alphabet
IsDigitStr(t) == t # <<>> /\ \A i \in 1..Len(t) : t[i] \in DigitChars

\* str.split(".")[0]
RECURSIVE SplitDotHead(_)
SplitDotHead(t) ==
    IF t = <<>> \/ Head(t) = "." THEN <<>>
    ELSE <<Head(t)>> \o SplitDotHead(Tail(t))

\* str.zfill(width): zeros go after a leading sign
ZFill(t, width) ==
    LET zeros == [i \in 1..(width - Len(t)) |-> "0"]
    IN  IF Len(t) >= width THEN t
        ELSE IF t # <<>> /\ Head(t) \in {"+", "-"}
             THEN <<Head(t)>> \o zeros \o Tail(t)
             ELSE zeros \o t

\* str.strip()
RECURSIVE LStrip(_)
LStrip(t) == IF t # <<>> /\ Head(t) = " " THEN LStrip(Tail(t)) ELSE t

RECURSIVE RStrip(_)
RStrip(t) ==
    IF t # <<>> /\ t[Len(t)] = " " THEN RStrip(SubSeq(t, 1, Len(t) - 1)) ELSE t

Strip(t) == RStrip(LStrip(t))

\* str.replace(",", ".")
ReplaceComma(t) == [i \in 1..Len(t) |-> IF t[i] = "," THEN "." ELSE t[i]]

LowerChar(c) ==
    CASE c = "N" -> "n" [] c = "A" -> "a" [] c = "I" -> "i" [] c = "F" -> "f"
      [] OTHER -> c

Lower(t) == [i \in 1..Len(t) |-> LowerChar(t[i])]

-----------------------------------------------------------------------------
(* Field parsers *)

\* A Python float: finite (mant / 10^scale, trailing zeros dropped), inf or nan
Float(kind, neg, mant, scale) ==
    [kind |-> kind, neg |-> neg, mant |-> mant, scale |-> scale]

RECURSIVE DigitsValue(_)
DigitsValue(t) ==
    IF t = <<>> THEN 0
    ELSE 10 * DigitsValue(SubSeq(t, 1, Len(t) - 1)) + DigitVal(t[Len(t)])

RECURSIVE Normalise(_, _, _)
Normalise(neg, mant, scale) ==
    IF scale > 0 /\ mant % 10 = 0 THEN Normalise(neg, mant \div 10, scale - 1)
    ELSE Float("finite", neg /\ mant # 0, mant, scale)

\* float(text): <<>> stands for ValueError.  The alphabet of the model holds
\* no exponent letter and no underscore.
PyFloat(t) ==
    LET signed == t # <<>> /\ Head(t) \in {"+", "-"}
        neg    == signed /\ Head(t) = "-"
        body   == IF signed THEN Tail(t) ELSE t
        dots   == {i \in 1..Len(body) : body[i] = "."}
        digs   == SelectSeq(body, LAMBDA c : c \in DigitChars)
        dot    == IF dots = {} THEN Len(body) ELSE CHOOSE i \in dots : TRUE
    IN  IF Lower(body) = <<"n", "a", "n">> THEN Some(Float("nan", FALSE, 0, 0))
        ELSE IF Lower(body) \in {<<"i", "n", "f">>,
                                 <<"i", "n", "f", "i", "n", "i", "t", "y">>}
        THEN Some(Float("inf", neg, 0, 0))
        ELSE IF /\ \A i \in 1..Len(body) : body[i] \in DigitChars \cup {"."}
                /\ Cardinality(dots) <= 1
                /\ digs # <<>>
        THEN Some(Normalise(neg, DigitsValue(digs), Len(body) - dot))
        ELSE Null

NullTexts == {<<>>, <<"-", "1">>, <<"N", "o", "n", "e">>, <<"n", "a", "n">>}

\* value is a cell holding str(value)
_safe_float(value) ==
    IF IsNull(value) THEN Null
    ELSE LET text == ReplaceComma(Strip(Val(value)))
         IN  IF text \in NullTexts THEN Null ELSE PyFloat(text)

\* Series.apply of a float-returning function: None and nan are both NaN
\* in the resulting column
FloatCell(r) == IF IsNull(r) \/ Val(r).kind = "nan" THEN Null ELSE r

_extract_hour(value) ==
    IF IsNull(value) THEN Null
    ELSE LET text == ZFill(SplitDotHead(Val(value)), 4)
         IN  IF ~IsDigitStr(text) THEN Null
             ELSE Some(10 * DigitVal(text[1]) + DigitVal(text[2]))

\* the bucket taken from what the label says: code 4 has public lighting
LightingGroupOfLabel(lum) ==
    IF IsNull(lum) THEN "Non renseigne"
    ELSE IF Val(lum) \in {4, 5} THEN "Eclairage public"
    ELSE IF Val(lum) = 3 THEN "Sans eclairage public"
    ELSE IF Val(lum) \in {1, 2} THEN "Lumiere naturelle"
    ELSE "Non renseigne"

_lighting_group(lum) ==
    IF IsNull(lum) THEN "Non renseigne"
    ELSE IF Val(lum) = 5 THEN "Eclairage public"
    ELSE IF Val(lum) \in {3, 4} THEN "Sans eclairage public"
    ELSE IF Val(lum) \in {1, 2} THEN "Lumiere naturelle"
    ELSE "Non renseigne"

-----------------------------------------------------------------------------
(* Configuration tables (config.py) *)

AGGLO_MAPPING == (1 :> "Hors agglomeration") @@ (2 :> "En agglomeration")

LIGHT_MAPPING ==
    (1 :> "Plein jour") @@ (2 :> "Crepuscule ou aube")
    @@ (3 :> "Nuit sans eclairage public")
    @@ (4 :> "Nuit avec eclairage public non allume")
    @@ (5 :> "Nuit avec eclairage public allume")

SURFACE_MAPPING == (1 :> "Normale") @@ (2 :> "Mouillee") @@ (5 :> "Enneigee")

SEVERITY_LABELS ==
    (1 :> "Indemne") @@ (2 :> "Tue") @@ (3 :> "Blesse hospitalise")
    @@ (4 :> "Blesse leger")

SEVERITY_ORDER == (2 :> 3) @@ (3 :> 2) @@ (4 :> 1) @@ (1 :> 0)

\* Series.map(mapping).fillna(default) on one cell
MapFillna(mapping, cell, default) ==
    IF IsNull(cell) \/ Val(cell) \notin DOMAIN mapping THEN default
    ELSE mapping[Val(cell)]

-----------------------------------------------------------------------------
(* Severity resolver *)

\* working["severity_rank"] of one casualty row
severity_rank(row) == MapFillna(SEVERITY_ORDER, row.grav, -1)

RECURSIVE SortedSeq(_)
SortedSeq(S) ==
    IF S = {} THEN <<>>
    ELSE LET m == CHOOSE x \in S : \A y \in S : x <= y
         IN  <<m>> \o SortedSeq(S \ {m})

\* idxmin in the place of idxmax
IdxMin(usagers, id) ==
    LET group == {i \in 1..Len(usagers) : usagers[i].Num_Acc = id}
        best  == {i \in group : \A j \in group :
                      severity_rank(usagers[i]) <= severity_rank(usagers[j])}
    IN  CHOOSE i \in best : \A j \in best : i <= j

\* groupby("Num_Acc")["severity_rank"].idxmax() for one group: the first row
\* of the group holding the group's maximum
IdxMax(usagers, id) ==
    LET group == {i \in 1..Len(usagers) : usagers[i].Num_Acc = id}
        best  == {i \in group : \A j \in group :
                      severity_rank(usagers[j]) <= severity_rank(usagers[i])}
    IN  CHOOSE i \in best : \A j \in best : i <= j

\* groupby("Num_Acc")["grav"].size() for one group
GroupSize(usagers, id) ==
    Cardinality({i \in 1..Len(usagers) : usagers[i].Num_Acc = id})

_worst_severity(usagers) ==
    LET keys == SortedSeq({usagers[i].Num_Acc : i \in 1..Len(usagers)})
    IN  [k \in 1..Len(keys) |->
            LET win == usagers[IdxMax(usagers, keys[k])]
            IN  [Num_Acc        |-> keys[k],
                 severity_code  |-> win.grav,
                 severity_label |->
                     Some(MapFillna(SEVERITY_LABELS, win.grav, "Gravite inconnue")),
                 victim_count   |-> Some(GroupSize(usagers, keys[k]))]]

-----------------------------------------------------------------------------
(* Table merger *)

LeapYear(y) == (y % 4 = 0 /\ y % 100 # 0) \/ y % 400 = 0

DaysIn(y, m) ==
    IF m = 2 THEN (IF LeapYear(y) THEN 29 ELSE 28)
    ELSE IF m \in {4, 6, 9, 11} THEN 30 ELSE 31

\* pd.to_datetime(dict(year, month, day), errors="coerce") on one row
ToDatetime(an, mois, jour) ==
    IF mois \in 1..12 /\ jour >= 1 /\ jour <= DaysIn(an, mois)
    THEN Some(<<an, mois, jour>>) ELSE Null

\* lines 82-94: the derived columns of one characteristics row
CaracteristiquesRow(r) ==
    [Num_Acc        |-> r.Num_Acc,
     date           |-> ToDatetime(r.an, r.mois, r.jour),
     hour           |-> _extract_hour(r.hrmn),
     agg            |-> r.agg,
     agg_label      |-> Some(MapFillna(AGGLO_MAPPING, r.agg, "Non renseigne")),
     lat            |-> FloatCell(_safe_float(r.lat)),
     long           |-> FloatCell(_safe_float(r.long)),
     lum            |-> r.lum,
     lighting_label |-> Some(MapFillna(LIGHT_MAPPING, r.lum, "Non renseigne")),
     lighting_group |-> Some(_lighting_group(r.lum))]

\* lines 97-99: the location columns kept, and the surface label
LieuxRow(r) ==
    [Num_Acc       |-> r.Num_Acc,
     surf          |-> r.surf,
     surface_label |-> Some(MapFillna(SURFACE_MAPPING, r.surf, "Non renseigne"))]

RECURSIVE Concat(_)
Concat(ss) == IF ss = <<>> THEN <<>> ELSE Head(ss) \o Concat(Tail(ss))

\* how="inner" in the place of how="left"
MergeInner(left, right, missing) ==
    Concat([i \in 1..Len(left) |->
        LET hits == SelectSeq(right, LAMBDA r : r.Num_Acc = left[i].Num_Acc)
        IN  [j \in 1..Len(hits) |-> left[i] @@ hits[j]]])

\* DataFrame.merge(right, on="Num_Acc", how="left"): left order kept, one
\* output row per matching right row, the right columns null without a match
MergeLeft(left, right, missing) ==
    Concat([i \in 1..Len(left) |->
        LET hits == SelectSeq(right, LAMBDA r : r.Num_Acc = left[i].Num_Acc)
        IN  IF hits = <<>> THEN <<left[i] @@ missing>>
            ELSE [j \in 1..Len(hits) |-> left[i] @@ hits[j]]])

NoLieux == [surf |-> Null, surface_label |-> Null]

NoSeverity ==
    [severity_code |-> Null, severity_label |-> Null, victim_count |-> Null]

\* lines 105-108
Merged(caracteristiques, lieux, usagers) ==
    MergeLeft(MergeLeft([i \in 1..Len(caracteristiques) |->
                            CaracteristiquesRow(caracteristiques[i])],
                        [i \in 1..Len(lieux) |-> LieuxRow(lieux[i])],
                        NoLieux),
              _worst_severity(usagers),
              NoSeverity)

\* merged.dropna(subset=["lat", "long"])
DropNa(rows) == SelectSeq(rows, LAMBDA r : ~IsNull(r.lat) /\ ~IsNull(r.long))

NumericColumns == {"hour", "agg", "surf", "lum", "severity_code", "victim_count"}

\* the numeric columns pandas holds as float64: those with a null in them
FloatColumns(rows) ==
    {c \in NumericColumns : \E i \in 1..Len(rows) : IsNull(rows[i][c])}

\* A DataFrame: its rows and the numeric columns of dtype float64
Table(rows, floats) == [rows |-> rows, floats |-> floats]

\* lines 76-130 on readable raw files
Pipeline(r) ==
    LET merged == Merged(r.caracteristiques.rows, r.lieux.rows, r.usagers.rows)
    IN  Table(DropNa(merged), FloatColumns(merged))

-----------------------------------------------------------------------------
(* The persisted file: DataFrame.to_csv and pd.read_csv *)

\* A csv cell of a numeric, float or date column is its text, <<>> when
\* empty; a cell of a string column is <<>> or <<"str", s>> for the string s.
DigitChar(d) ==
    CASE d = 0 -> "0" [] d = 1 -> "1" [] d = 2 -> "2" [] d = 3 -> "3"
      [] d = 4 -> "4" [] d = 5 -> "5" [] d = 6 -> "6" [] d = 7 -> "7"
      [] d = 8 -> "8" [] d = 9 -> "9"

RECURSIVE NatText(_)
NatText(n) ==
    IF n < 10 THEN <<DigitChar(n)>>
    ELSE NatText(n \div 10) \o <<DigitChar(n % 10)>>

IntText(n) == IF n < 0 THEN <<"-">> \o NatText(-n) ELSE NatText(n)

RECURSIVE Pow10(_)
Pow10(k) == IF k = 0 THEN 1 ELSE 10 * Pow10(k - 1)

\* an integer of an int64 column, or of a float64 one when dec ("8.0")
NumText(cell, dec) ==
    IF IsNull(cell) THEN <<>>
    ELSE IntText(Val(cell)) \o (IF dec THEN <<".", "0">> ELSE <<>>)

\* the repr of a float, in the range where it has no exponent
FloatText(cell) ==
    IF IsNull(cell) THEN <<>>
    ELSE LET f    == Val(cell)
             sign == IF f.neg THEN <<"-">> ELSE <<>>
             unit == Pow10(f.scale)
         IN  IF f.kind = "inf" THEN sign \o <<"i", "n", "f">>
             ELSE sign \o NatText(f.mant \div unit) \o <<".">>
                  \o (IF f.scale = 0 THEN <<"0">>
                      ELSE ZFill(NatText(f.mant % unit), f.scale))

\* to_csv(date_format="%Y-%m") in the place of the default format
DateTextMonth(cell) ==
    IF IsNull(cell) THEN <<>>
    ELSE ZFill(NatText(Val(cell)[1]), 4) \o <<"-">>
         \o ZFill(NatText(Val(cell)[2]), 2)

\* a midnight timestamp: YYYY-MM-DD
DateText(cell) ==
    IF IsNull(cell) THEN <<>>
    ELSE ZFill(NatText(Val(cell)[1]), 4) \o <<"-">>
         \o ZFill(NatText(Val(cell)[2]), 2) \o <<"-">>
         \o ZFill(NatText(Val(cell)[3]), 2)

StrText(cell) == IF IsNull(cell) THEN <<>> ELSE <<"str", Val(cell)>>

\* merged.to_csv(CLEANED_FILE, index=False): the rows of the file
ToCsv(table) ==
    [i \in 1..Len(table.rows) |->
        LET r == table.rows[i]
            num(c) == NumText(r[c], c \in table.floats)
        IN  [Num_Acc        |-> IntText(r.Num_Acc),
             date           |-> DateText(r.date),
             hour           |-> num("hour"),
             agg            |-> num("agg"),
             agg_label      |-> StrText(r.agg_label),
             lat            |-> FloatText(r.lat),
             long           |-> FloatText(r.long),
             surf           |-> num("surf"),
             surface_label  |-> StrText(r.surface_label),
             lum            |-> num("lum"),
             lighting_label |-> StrText(r.lighting_label),
             lighting_group |-> StrText(r.lighting_group),
             severity_code  |-> num("severity_code"),
             severity_label |-> StrText(r.severity_label),
             victim_count   |-> num("victim_count")]]

\* the strings read_csv takes for a missing value, among those of the model
NaStrings == {"", "NA", "N/A", "NULL", "NaN", "None", "n/a", "nan", "null"}

\* str.split(sep)
RECURSIVE SplitOn(_, _)
SplitOn(t, sep) ==
    LET at == {i \in 1..Len(t) : t[i] = sep}
    IN  IF at = {} THEN <<t>>
        ELSE LET i == CHOOSE k \in at : \A j \in at : k <= j
             IN  <<SubSeq(t, 1, i - 1)>> \o SplitOn(SubSeq(t, i + 1, Len(t)), sep)

\* read_csv on one cell of an integer-valued column ("8" and "8.0" are 8)
ParseNum(tok) ==
    IF tok = <<>> \/ IsNull(PyFloat(tok)) THEN Null
    ELSE LET f == Val(PyFloat(tok))
         IN  Some(IF f.neg THEN -f.mant ELSE f.mant)

\* read_csv on one cell of a float column
ParseFloat(tok) == IF tok = <<>> THEN Null ELSE FloatCell(PyFloat(tok))

\* read_csv on one cell of a parse_dates column: YYYY-MM-DD, or YYYY-MM for
\* the first day of the month
ParseDate(tok) ==
    LET fields == SplitOn(tok, "-")
        n(k)   == DigitsValue(fields[k])
    IN  IF tok = <<>> \/ \E k \in 1..Len(fields) : ~IsDigitStr(fields[k]) THEN Null
        ELSE IF Len(fields) = 3 THEN ToDatetime(n(1), n(2), n(3))
        ELSE IF Len(fields) = 2 THEN ToDatetime(n(1), n(2), 1)
        ELSE Null

\* read_csv on one cell of a string column
ParseStr(tok) ==
    IF tok = <<>> THEN Null
    ELSE IF tok[2] \in NaStrings THEN Null ELSE Some(tok[2])

\* pd.read_csv(CLEANED_FILE, parse_dates=["date"]); a numeric column comes
\* back as float64 when a cell of it is empty or has a decimal point
ReadCsv(rows) ==
    Table([i \in 1..Len(rows) |->
              LET r == rows[i]
              IN  [Num_Acc        |-> Val(ParseNum(r.Num_Acc)),
                   date           |-> ParseDate(r.date),
                   hour           |-> ParseNum(r.hour),
                   agg            |-> ParseNum(r.agg),
                   agg_label      |-> ParseStr(r.agg_label),
                   lat            |-> ParseFloat(r.lat),
                   long           |-> ParseFloat(r.long),
                   surf           |-> ParseNum(r.surf),
                   surface_label  |-> ParseStr(r.surface_label),
                   lum            |-> ParseNum(r.lum),
                   lighting_label |-> ParseStr(r.lighting_label),
                   lighting_group |-> ParseStr(r.lighting_group),
                   severity_code  |-> ParseNum(r.severity_code),
                   severity_label |-> ParseStr(r.severity_label),
                   victim_count   |-> ParseNum(r.victim_count)]],
          {c \in NumericColumns :
              \E i \in 1..Len(rows) :
                  rows[i][c] = <<>> \/ \E k \in 1..Len(rows[i][c]) : rows[i][c][k] = "."})

NoFile == [exists |-> FALSE, rows |-> <<>>]
File(rows) == [exists |-> TRUE, rows |-> rows]

-----------------------------------------------------------------------------
(* The raw files *)

\* state: "ok" (readable, with the expected columns), "absent" (no such file,
\* or unreadable) or "nocolumn" (an expected column is missing)
RawFile(state, rows) == [state |-> state, rows |-> rows]

RawFiles(c, l, u) == [caracteristiques |-> c, lieux |-> l, usagers |-> u]

RawOrder == <<"caracteristiques", "lieux", "usagers">>

Readable(r) == \A i \in 1..3 : r[RawOrder[i]].state = "ok"

\* the exception pd.read_csv or a column lookup raises on the first bad file
RawError(r) ==
    LET bad == CHOOSE i \in 1..3 :
                   /\ r[RawOrder[i]].state # "ok"
                   /\ \A j \in 1..(i - 1) : r[RawOrder[j]].state = "ok"
    IN  IF r[RawOrder[bad]].state = "absent" THEN "FileNotFoundError"
        ELSE "KeyError"

-----------------------------------------------------------------------------
(* Inputs *)

AccIds == {1, 2}

SeqsUpTo(S, n) == UNION {[1..k -> S] : k \in 0..n}

T_4885 == <<"4", "8", ",", "8", "5">>
T_235  == <<"2", ".", "3", "5">>
T_455  == <<" ", "4", "5", ".", "5">>
T_m1   == <<"-", "1">>
T_0830 == <<"0", "8", "3", "0">>
T_abcd == <<"a", "b", "c", "d">>

\* the cells of a characteristics row besides the accident id
CaraProfiles ==
    { [an |-> 2023, mois |-> 5, jour |-> 17, hrmn |-> Some(T_0830),
       agg |-> Some(1), lum |-> Some(5),
       lat |-> Some(T_4885), long |-> Some(T_235)],
      [an |-> 2023, mois |-> 2, jour |-> 30, hrmn |-> Some(T_abcd),
       agg |-> Some(9), lum |-> Null,
       lat |-> Some(T_455), long |-> Some(T_235)],
      [an |-> 2023, mois |-> 12, jour |-> 31, hrmn |-> Null,
       agg |-> Null, lum |-> Some(3),
       lat |-> Null, long |-> Some(T_235)],
      [an |-> 2024, mois |-> 2, jour |-> 29, hrmn |-> Some(T_0830),
       agg |-> Some(2), lum |-> Some(1),
       lat |-> Some(T_4885), long |-> Some(T_m1)] }

CaraRows == {[Num_Acc |-> id] @@ p : id \in AccIds, p \in CaraProfiles}

LieuxRows == {[Num_Acc |-> id, surf |-> s] : id \in AccIds, s \in {Some(1), Null}}

UsagersRows ==
    {[Num_Acc |-> id, grav |-> g] : id \in AccIds, g \in {Some(2), Some(4), Null}}

\* whether r is three readable raw files of at most `rows` rows together,
\* drawn from the rows above
PipelineInput(r, rows) ==
    \E n1 \in 0..rows : \E n2 \in 0..(rows - n1) : \E n3 \in 0..(rows - n1 - n2) :
        \E c \in [1..n1 -> CaraRows] : \E l \in [1..n2 -> LieuxRows] :
            \E u \in [1..n3 -> UsagersRows] :
                r = RawFiles(RawFile("ok", c), RawFile("ok", l), RawFile("ok", u))

\* casualty tables given to _worst_severity
GravCodes == {Some(1), Some(2), Some(3), Some(4), Some(9), Null}

CasualtyRows == {[Num_Acc |-> id, grav |-> g] : id \in AccIds, g \in GravCodes}

HrmnChars == {"0", "2", "3", "5", "8", ".", "a"}

T_830   == <<"8", "3", "0">>
T_830p0 == <<"8", "3", "0", ".", "0">>
T_08c30 == <<"0", "8", ":", "3", "0">>

\* null, every text of at most len characters of HrmnChars, and three more
HrmnInputs(len) ==
    {Null} \cup {Some(t) : t \in SeqsUpTo(HrmnChars, len) \cup {T_abcd, T_08c30, T_m1}}

CoordChars == {"1", "5", ",", ".", "-", " ", "i", "n", "f"}

T_None     == <<"N", "o", "n", "e">>
T_nan      == <<"n", "a", "n">>
T_NaN      == <<"N", "a", "N">>
T_Infinity == <<"I", "n", "f", "i", "n", "i", "t", "y">>

\* null, every text of at most len characters of CoordChars, and some more
CoordInputs(len) ==
    {Null} \cup {Some(t) : t \in SeqsUpTo(CoordChars, len)
                              \cup {T_4885, T_235, T_455, T_abcd, T_None,
                                    T_nan, T_NaN, T_Infinity}}

\* one characteristics row whose lat, or whose long, is the token under test
CoordRows(len) ==
    LET row(lat, long) ==
            [Num_Acc |-> 1, an |-> 2023, mois |-> 5, jour |-> 17,
             hrmn |-> Some(T_0830), agg |-> Some(1), lum |-> Some(5),
             lat |-> lat, long |-> long]
    IN  {row(v, Some(T_235)) : v \in CoordInputs(len)}
        \cup {row(Some(T_4885), v) : v \in CoordInputs(len)}

\* the lum cells after pd.to_numeric: null, the codes 1..5 and some others
LumCodes == {Null} \cup {Some(c) : c \in {-1, 0, 1, 2, 3, 4, 5, 6, 9}}

\* the characteristics table with the lum column c, one accident per row
LumTable(c) ==
    [i \in 1..Len(c) |->
        [Num_Acc |-> i, an |-> 2023, mois |-> 5, jour |-> 17,
         hrmn |-> Some(T_0830), agg |-> Some(1), lum |-> c[i],
         lat |-> Some(T_4885), long |-> Some(T_235)]]

\* the deliveries of the external data source in the cache runs
CaraA == <<[Num_Acc |-> 1, an |-> 2023, mois |-> 5, jour |-> 17,
            hrmn |-> Some(T_0830), agg |-> Some(1), lum |-> Some(5),
            lat |-> Some(T_4885), long |-> Some(T_235)],
           [Num_Acc |-> 2, an |-> 2023, mois |-> 12, jour |-> 31,
            hrmn |-> Null, agg |-> Null, lum |-> Some(3),
            lat |-> Null, long |-> Some(T_235)]>>

CaraB == <<[Num_Acc |-> 2, an |-> 2024, mois |-> 2, jour |-> 29,
            hrmn |-> Some(T_abcd), agg |-> Some(2), lum |-> Some(1),
            lat |-> Some(T_455), long |-> Some(T_235)]>>

LieuxA == <<[Num_Acc |-> 1, surf |-> Some(1)]>>

UsagersA == <<[Num_Acc |-> 1, grav |-> Some(4)], [Num_Acc |-> 1, grav |-> Some(2)],
              [Num_Acc |-> 2, grav |-> Some(4)]>>

UsagersB == <<[Num_Acc |-> 2, grav |-> Some(3)]>>

Deliveries ==
    { RawFiles(RawFile("ok", CaraA), RawFile("ok", LieuxA), RawFile("ok", UsagersA)),
      RawFiles(RawFile("ok", CaraB), RawFile("ok", <<>>), RawFile("ok", UsagersB)),
      RawFiles(RawFile("ok", CaraA), RawFile("ok", LieuxA), RawFile("absent", <<>>)),
      RawFiles(RawFile("absent", <<>>), RawFile("ok", LieuxA), RawFile("ok", UsagersA)),
      RawFiles(RawFile("ok", CaraB), RawFile("nocolumn", <<>>), RawFile("ok", UsagersB)) }

\* download_data(force): the raw files it may leave.  It fetches when forced
\* or when a file is absent, and what it fetches is the source's choice.
download_data(r, force) ==
    IF force \/ \E i \in 1..3 : r[RawOrder[i]].state = "absent"
    THEN Deliveries ELSE {r}

-----------------------------------------------------------------------------
(* clean_data and load_clean_data *)

NoTable == Table(<<>>, {})

\* the file opened for writing before the raw files are read
CleanedAfterTruncating(r, file) ==
    IF Readable(r) THEN File(ToCsv(Pipeline(r))) ELSE File(<<>>)

\* CLEANED_FILE after clean_data has run on the raw files r: written at
\* line 131, which a failing read or column lookup never reaches
CleanedAfter(r, file) ==
    IF Readable(r) THEN File(ToCsv(Pipeline(r))) ELSE file

\* what clean_data returns or raises on the raw files r
CleanDataOutcome(r) ==
    IF Readable(r) THEN [outcome |-> "ok", ret |-> Pipeline(r)]
    ELSE [outcome |-> RawError(r), ret |-> NoTable]

Call(op, force, res, ran, readCleaned, wrote) ==
    [op |-> op, force |-> force, outcome |-> res.outcome, ret |-> res.ret,
     ranPipeline |-> ran, readCleaned |-> readCleaned, wrote |-> wrote,
     cachedBefore |-> cache.filled, loadedBefore |-> firstLoad.set,
     runsBefore |-> loadRuns, cleanedBefore |-> cleaned]

NoCall ==
    [op |-> "none", force |-> FALSE, outcome |-> "ok", ret |-> NoTable,
     ranPipeline |-> FALSE, readCleaned |-> FALSE, wrote |-> FALSE,
     cachedBefore |-> FALSE, loadedBefore |-> FALSE, runsBefore |-> 0,
     cleanedBefore |-> NoFile]

NoCache == [filled |-> FALSE, table |-> NoTable]

\* load_clean_data without its @lru_cache
CacheNotKept(table) == [filled |-> FALSE, table |-> NoTable]

\* the lru_cache entry after a call of load_clean_data has returned table
CacheAfterLoad(table) == [filled |-> TRUE, table |-> table]

NoLoad == [set |-> FALSE, table |-> NoTable]

FirstLoadAfter(table) ==
    IF firstLoad.set THEN firstLoad ELSE [set |-> TRUE, table |-> table]

\* the pipeline run on every uncached call
AlwaysCompute(file) == TRUE

\* line 137
MustCompute(file) == ~file.exists

\* clean_data(force), called as the refresh entry point
clean_data(force) ==
    \E r \in download_data(raw, force) :
        /\ raw' = r
        /\ cleaned' = CleanedAfter(r, cleaned)
        /\ last' = Call("clean_data", force, CleanDataOutcome(r), TRUE, FALSE,
                        Readable(r))
        /\ refreshed' = TRUE
        /\ UNCHANGED <<cache, loadRuns, loadDone, firstLoad>>
        /\ UNCHANGED <<hrmn_value, hour, usagers_arg, severity>>

\* load_clean_data() answered by the lru_cache
LoadCached ==
    /\ cache.filled
    /\ last' = Call("load_clean_data", FALSE,
                    [outcome |-> "ok", ret |-> cache.table], FALSE, FALSE, FALSE)
    /\ firstLoad' = FirstLoadAfter(cache.table)
    /\ UNCHANGED <<raw, cleaned, cache, loadRuns, loadDone, refreshed>>
    /\ UNCHANGED <<hrmn_value, hour, usagers_arg, severity>>

\* load_clean_data() with no cleaned file: line 138
LoadCompute ==
    /\ ~cache.filled
    /\ MustCompute(cleaned)
    /\ loadRuns < MaxLoadRuns
    /\ \E r \in download_data(raw, FALSE) :
        LET res == CleanDataOutcome(r)
        IN  /\ raw' = r
            /\ cleaned' = CleanedAfter(r, cleaned)
            /\ last' = Call("load_clean_data", FALSE, res, TRUE, FALSE, Readable(r))
            /\ loadRuns' = loadRuns + 1
            /\ IF res.outcome = "ok"
               THEN /\ cache' = CacheAfterLoad(res.ret)
                    /\ firstLoad' = FirstLoadAfter(res.ret)
                    /\ loadDone' = loadDone + 1
               ELSE UNCHANGED <<cache, firstLoad, loadDone>>
            /\ UNCHANGED <<refreshed, hrmn_value, hour, usagers_arg, severity>>

\* load_clean_data() reading the cleaned file: line 139
LoadRead ==
    /\ ~cache.filled
    /\ ~MustCompute(cleaned)
    /\ LET table == ReadCsv(cleaned.rows)
       IN  /\ last' = Call("load_clean_data", FALSE,
                           [outcome |-> "ok", ret |-> table], FALSE, TRUE, FALSE)
           /\ cache' = CacheAfterLoad(table)
           /\ firstLoad' = FirstLoadAfter(table)
    /\ UNCHANGED <<raw, cleaned, loadRuns, loadDone, refreshed>>
    /\ UNCHANGED <<hrmn_value, hour, usagers_arg, severity>>

load_clean_data == LoadCached \/ LoadCompute \/ LoadRead

-----------------------------------------------------------------------------
(* The parsers and the resolver called on their own *)

NotCalled == [called |-> FALSE, value |-> <<>>]
Returned(v) == [called |-> TRUE, value |-> v]

ExtractHourCall ==
    /\ ~hour.called
    /\ hour' = Returned(_extract_hour(hrmn_value))
    /\ UNCHANGED <<raw, cleaned, cache, last, loadRuns, loadDone, refreshed,
                   firstLoad, hrmn_value, usagers_arg, severity>>

WorstSeverityCall ==
    /\ ~severity.called
    /\ severity' = Returned(_worst_severity(usagers_arg))
    /\ UNCHANGED <<raw, cleaned, cache, last, loadRuns, loadDone, refreshed,
                   firstLoad, hrmn_value, hour, usagers_arg>>

-----------------------------------------------------------------------------
(* Specifications *)

Idle ==
    /\ hrmn_value = Null
    /\ hour = NotCalled
    /\ usagers_arg = <<>>
    /\ severity = NotCalled

Fresh ==
    /\ cleaned = NoFile
    /\ cache = NoCache
    /\ last = NoCall
    /\ loadRuns = 0
    /\ loadDone = 0
    /\ refreshed = FALSE
    /\ firstLoad = NoLoad

\* a process with the lru_cache empty, no cleaned file yet, and the raw files
\* as some delivery of the source left them
Init == raw \in Deliveries /\ Fresh /\ Idle

Next ==
    \/ \E force \in BOOLEAN : clean_data(force)
    \/ load_clean_data

Spec == Init /\ [][Next]_vars

\* one pipeline run on every combination of the three raw tables
InitPipeline == PipelineInput(raw, MaxRows) /\ Fresh /\ Idle

NextPipeline == last.op = "none" /\ clean_data(FALSE)

SpecPipeline == InitPipeline /\ [][NextPipeline]_vars

\* _worst_severity on every casualty table
InitSeverity ==
    /\ raw \in {RawFiles(RawFile("ok", <<>>), RawFile("ok", <<>>), RawFile("ok", <<>>))}
    /\ Fresh
    /\ hrmn_value = Null
    /\ hour = NotCalled
    /\ usagers_arg \in SeqsUpTo(CasualtyRows, MaxCasualties)
    /\ severity = NotCalled

SpecSeverity == InitSeverity /\ [][WorstSeverityCall]_vars

\* _extract_hour on every hrmn value
InitHour ==
    /\ raw \in {RawFiles(RawFile("ok", <<>>), RawFile("ok", <<>>), RawFile("ok", <<>>))}
    /\ Fresh
    /\ hrmn_value \in HrmnInputs(MaxHrmnLen)
    /\ hour = NotCalled
    /\ usagers_arg = <<>>
    /\ severity = NotCalled

SpecHour == InitHour /\ [][ExtractHourCall]_vars

\* one pipeline run on one characteristics row, for every lat and long token
InitCoordinates ==
    /\ raw \in {RawFiles(RawFile("ok", <<row>>), RawFile("ok", <<>>),
                         RawFile("ok", <<>>)) : row \in CoordRows(MaxCoordLen)}
    /\ Fresh
    /\ Idle

SpecCoordinates == InitCoordinates /\ [][NextPipeline]_vars

\* one pipeline run on every lum column
InitLighting ==
    /\ raw \in {RawFiles(RawFile("ok", LumTable(c)), RawFile("ok", <<>>),
                         RawFile("ok", <<>>)) : c \in SeqsUpTo(LumCodes, MaxLumRows)}
    /\ Fresh
    /\ Idle

SpecLighting == InitLighting /\ [][NextPipeline]_vars

\* a pipeline run writing the cleaned file, then a process reading it back
NextRoundTrip ==
    \/ NextPipeline
    \/ last.op = "clean_data" /\ LoadRead

SpecRoundTrip == InitPipeline /\ [][NextRoundTrip]_vars

-----------------------------------------------------------------------------
(* Properties *)

CleanDataReturned == last.op = "clean_data" /\ last.outcome = "ok"

OutRows == last.ret.rows

RowsOf(id) == {i \in 1..Len(OutRows) : OutRows[i].Num_Acc = id}

CaraIds == {raw.caracteristiques.rows[i].Num_Acc :
               i \in 1..Len(raw.caracteristiques.rows)}

LieuxIds == {raw.lieux.rows[i].Num_Acc : i \in 1..Len(raw.lieux.rows)}

UsagersIds == {raw.usagers.rows[i].Num_Acc : i \in 1..Len(raw.usagers.rows)}

\* C1: in the table clean_data returns and in the file it writes, every
\* accident id (Num_Acc) is in at most one row, whatever the three raw tables
\* hold.  The code does not keep this: a location table with two rows for an
\* id, or a characteristics table repeating one, gives the id two rows.
C1_UniqueIds ==
    CleanDataReturned =>
        /\ \A id \in AccIds : Cardinality(RowsOf(id)) <= 1
        /\ \A i, j \in 1..Len(cleaned.rows) :
               cleaned.rows[i].Num_Acc = cleaned.rows[j].Num_Acc => i = j

Populated(cell) == ~IsNull(cell) /\ Val(cell) # ""

\* C2: in every row of the table clean_data produces, agg_label,
\* lighting_label, surface_label and severity_label are non-null, non-empty
\* strings.  The code does not keep this: the labels are filled before the
\* left joins, so a row without a location or casualty match has them null.
C2_LabelsPopulated ==
    CleanDataReturned =>
        \A i \in 1..Len(OutRows) :
            /\ Populated(OutRows[i].agg_label)
            /\ Populated(OutRows[i].lighting_label)
            /\ Populated(OutRows[i].surface_label)
            /\ Populated(OutRows[i].severity_label)

\* C3: in every output row victim_count is the number of casualty rows with
\* the row's accident id, and 0 (not null) when there is none.  The code does
\* not keep this: without casualty rows the left join leaves it null.
C3_VictimCount ==
    CleanDataReturned =>
        \A i \in 1..Len(OutRows) :
            OutRows[i].victim_count =
                Some(GroupSize(raw.usagers.rows, OutRows[i].Num_Acc))

-----------------------------------------------------------------------------

Perms(n) == {p \in [1..n -> 1..n] : \A i, j \in 1..n : p[i] = p[j] => i = j}

Permute(t, p) == [i \in 1..Len(t) |-> t[p[i]]]

GroupOf(t, id) == {i \in 1..Len(t) : t[i].Num_Acc = id}

MaxRank(t, id) ==
    CHOOSE m \in {severity_rank(t[i]) : i \in GroupOf(t, id)} :
        \A i \in GroupOf(t, id) : severity_rank(t[i]) <= m

\* the rows of a resolver result for one accident id
Resolved(res, id) == SelectSeq(res, LAMBDA r : r.Num_Acc = id)

\* one row per accident id with casualty rows, holding a code of the
\* greatest rank among them
OneRowOfMaxRank(t, res) ==
    \A id \in AccIds :
        GroupOf(t, id) # {} =>
            /\ Len(Resolved(res, id)) = 1
            /\ \E i \in GroupOf(t, id) :
                   /\ t[i].grav = Resolved(res, id)[1].severity_code
                   /\ severity_rank(t[i]) = MaxRank(t, id)

\* C4 as claimed: one row of maximum rank per accident id, and the same
\* resolved severity code for every permutation of the casualty rows.
C4_AnyOrderSameCode ==
    severity.called =>
        /\ OneRowOfMaxRank(usagers_arg, severity.value)
        /\ \A p \in Perms(Len(usagers_arg)) : \A id \in AccIds :
               GroupOf(usagers_arg, id) # {} =>
                   Resolved(_worst_severity(Permute(usagers_arg, p)), id)[1].severity_code
                       = Resolved(severity.value, id)[1].severity_code

\* C4, amended: _worst_severity returns one row per accident id with casualty
\* rows, holding a code of the greatest rank among them; for every permutation
\* of the casualty rows the rank of the resolved code is the same, and the
\* code itself is the same whenever the greatest rank is that of a code of
\* SEVERITY_ORDER (rows whose codes are all outside it tie at rank -1 with
\* codes that may differ, and the first of them wins).
C4_AnyOrderSameMappedCode ==
    severity.called =>
        /\ OneRowOfMaxRank(usagers_arg, severity.value)
        /\ \A p \in Perms(Len(usagers_arg)) : \A id \in AccIds :
               GroupOf(usagers_arg, id) # {} =>
                   LET here  == Resolved(severity.value, id)[1]
                       there == Resolved(_worst_severity(Permute(usagers_arg, p)), id)[1]
                   IN  /\ severity_rank([grav |-> there.severity_code])
                              = severity_rank([grav |-> here.severity_code])
                       /\ MaxRank(usagers_arg, id) >= 0 =>
                              there.severity_code = here.severity_code

\* an accident with three casualty rows, two tied at the greatest rank behind
\* a row of lower rank
C4_Witness ==
    /\ severity.called
    /\ Len(usagers_arg) = 3
    /\ \A i \in 1..3 : usagers_arg[i].Num_Acc = 1
    /\ severity_rank(usagers_arg[1]) = 1
    /\ severity_rank(usagers_arg[2]) = 3
    /\ severity_rank(usagers_arg[3]) = 3
    /\ Resolved(severity.value, 1)[1].severity_code = Some(2)

-----------------------------------------------------------------------------

\* whether a raw coordinate cell parses to a value that is not null
ParsesNonNull(cell) ==
    LET f == _safe_float(cell) IN ~IsNull(f) /\ Val(f).kind # "nan"

Located ==
    {raw.caracteristiques.rows[i].Num_Acc :
        i \in {k \in 1..Len(raw.caracteristiques.rows) :
                  /\ ParsesNonNull(raw.caracteristiques.rows[k].lat)
                  /\ ParsesNonNull(raw.caracteristiques.rows[k].long)}}

\* C5: the accident ids of clean_data's output are exactly the ids of the
\* characteristics rows whose lat and long both parse to a non-null value:
\* every output row has lat and long, and no located characteristics row is
\* lost for want of a location row or of casualty rows.
C5_CoverageMinusCoordinates ==
    CleanDataReturned =>
        /\ {OutRows[i].Num_Acc : i \in 1..Len(OutRows)} = Located
        /\ \A i \in 1..Len(OutRows) :
               ~IsNull(OutRows[i].lat) /\ ~IsNull(OutRows[i].long)
        /\ {Val(ParseNum(cleaned.rows[i].Num_Acc)) : i \in 1..Len(cleaned.rows)} = Located

\* a located accident without location and casualty rows is kept while an
\* accident without coordinates is dropped
C5_Witness ==
    /\ CleanDataReturned
    /\ \E id \in Located : id \notin LieuxIds /\ id \notin UsagersIds
    /\ CaraIds \ Located # {}
    /\ Len(OutRows) = 1

-----------------------------------------------------------------------------

LoadCalled == last.op = "load_clean_data"

\* C6 as claimed: calls of load_clean_data without a refresh in between run
\* clean_data at most once, and the calls after the first get the first
\* call's table without a run and without a read of the file.
C6_AtMostOneRun ==
    ~refreshed =>
        /\ loadRuns <= 1
        /\ (LoadCalled /\ (last.runsBefore > 0 \/ last.loadedBefore)) =>
               /\ last.outcome = "ok"
               /\ last.ret = firstLoad.table
               /\ ~last.ranPipeline
               /\ ~last.readCleaned

\* C6, amended: once a call of load_clean_data has returned a table, every
\* later call in the process returns that same table and neither runs
\* clean_data nor reads the cleaned file, so at most one clean_data run made
\* by load_clean_data completes.  A call that fails caches nothing: the next
\* call runs clean_data again.
C6_CachedAfterFirstReturn ==
    /\ (LoadCalled /\ last.loadedBefore) =>
           /\ last.outcome = "ok"
           /\ last.ret = firstLoad.table
           /\ ~last.ranPipeline
           /\ ~last.readCleaned
           /\ ~last.wrote
    /\ loadDone <= 1

\* a second call, made after the first one ran the pipeline and a refresh
\* rewrote the cleaned file
C6_Witness ==
    /\ LoadCalled
    /\ last.loadedBefore
    /\ loadDone = 1
    /\ refreshed
    /\ cleaned.rows # ToCsv(last.ret)

\* whether a table and the rows of a cleaned file hold the same content
SameContent(table, rows) == ToCsv(table) = rows \/ table = ReadCsv(rows)

\* C7: once a refresh (an explicit clean_data run) has written the cleaned
\* table, a later load_clean_data call returns the content of the table last
\* written, also in a process that had loaded before the refresh.  The code
\* does not keep this: nothing clears the lru_cache, so such a process keeps
\* getting the table it loaded first.
C7_RefreshVisible ==
    (LoadCalled /\ last.outcome = "ok" /\ refreshed /\ cleaned.exists) =>
        SameContent(last.ret, cleaned.rows)

\* C8: an uncached call of load_clean_data runs clean_data exactly when no
\* cleaned file exists at the call.  With the file there it returns what
\* read_csv makes of it, without a pipeline run (the only reader of the raw
\* files) and leaving the file as it is; without the file it runs the
\* pipeline and, when that returns, the file exists and holds the table
\* returned.
C8_ComputeIffNoFile ==
    (LoadCalled /\ ~last.cachedBefore) =>
        /\ last.ranPipeline <=> ~last.cleanedBefore.exists
        /\ last.cleanedBefore.exists =>
               /\ last.outcome = "ok"
               /\ last.readCleaned
               /\ last.ret = ReadCsv(last.cleanedBefore.rows)
               /\ ~last.wrote
               /\ cleaned = last.cleanedBefore
        /\ (~last.cleanedBefore.exists /\ last.outcome = "ok") =>
               /\ ~last.readCleaned
               /\ last.wrote
               /\ cleaned = File(ToCsv(last.ret))

\* an uncached call that finds a cleaned file with rows in it
C8_Witness ==
    /\ LoadCalled
    /\ ~last.cachedBefore
    /\ last.cleanedBefore.exists
    /\ Len(last.ret.rows) > 0

\* C9: a clean_data run that meets a structural failure (a raw file absent
\* or unreadable, or an expected column missing) ends in an error, returns no
\* table and leaves the cleaned file as it was before the call.
C9_FailureWritesNothing ==
    /\ (last.ranPipeline /\ ~Readable(raw)) => last.outcome # "ok"
    /\ last.outcome # "ok" =>
           /\ last.ret = NoTable
           /\ ~last.wrote
           /\ cleaned = last.cleanedBefore

\* a refresh failing on a missing column while a cleaned file with rows exists
C9_Witness ==
    /\ last.op = "clean_data"
    /\ last.outcome = "KeyError"
    /\ cleaned.exists
    /\ Len(cleaned.rows) > 0

-----------------------------------------------------------------------------

\* C10: _extract_hour returns null or an integer in 0..23 for every input;
\* "0830", "830" and "830.0" give 8 and "", null and "abcd" give null.  The
\* code does not keep the range: four digits whose first two exceed 23 come
\* back as they are ("2530" gives 25).
C10_HourInRange ==
    hour.called =>
        /\ IsNull(hour.value) \/ Val(hour.value) \in 0..23
        /\ hrmn_value \in {Some(T_0830), Some(T_830), Some(T_830p0)} =>
               hour.value = Some(8)
        /\ (IsNull(hrmn_value) \/ hrmn_value \in {Some(<<>>), Some(T_abcd)}) =>
               IsNull(hour.value)

-----------------------------------------------------------------------------

\* whether a lat or long cell of the cleaned table holds a finite number
FiniteCell(cell) == ~IsNull(cell) /\ Val(cell).kind = "finite"

\* the tokens the coordinate parser is to give null for
NullCoordinates ==
    {Null, Some(<<>>), Some(T_m1), Some(T_abcd), Some(T_None), Some(T_nan)}

\* C11: the coordinate parser gives null or a finite number for every token,
\* without raising: null for null, "", "-1" and non-numeric text (so the row
\* is dropped), 48.85 for "48,85" and 2.35 for "2.35"; hence every lat and
\* long of the cleaned table is a finite number.  The code does not keep
\* this: float() takes "inf" (and "-inf", "Infinity") for a number, the row
\* stays and its coordinate is infinite.
C11_FiniteCoordinates ==
    (CleanDataReturned /\ Len(raw.caracteristiques.rows) = 1) =>
        LET r == raw.caracteristiques.rows[1]
        IN  /\ \A i \in 1..Len(OutRows) :
                   FiniteCell(OutRows[i].lat) /\ FiniteCell(OutRows[i].long)
            /\ (r.lat \in NullCoordinates \/ r.long \in NullCoordinates) =>
                   OutRows = <<>>
            /\ (r.lat = Some(T_4885) /\ r.long = Some(T_235)) =>
                   /\ Len(OutRows) = 1
                   /\ OutRows[1].lat = Some(Float("finite", FALSE, 4885, 2))
                   /\ OutRows[1].long = Some(Float("finite", FALSE, 235, 2))

-----------------------------------------------------------------------------

\* C12: the table a load_clean_data call reads back from the cleaned file
\* that clean_data wrote has the rows clean_data produced, cell for cell in
\* every column: the dates, the null hour and severity code cells, the label
\* strings and the victim counts come back as the values written.
C12_RoundTrip ==
    (LoadCalled /\ last.readCleaned) =>
        /\ cleaned = File(ToCsv(Pipeline(raw)))
        /\ last.ret.rows = Pipeline(raw).rows

\* a table read back with a date, a null date, a null hour, a null severity
\* code and a victim count in it
C12_Witness ==
    /\ LoadCalled
    /\ last.readCleaned
    /\ \E i, j \in 1..Len(OutRows) :
           /\ ~IsNull(OutRows[i].date)
           /\ OutRows[i].hour = Some(8)
           /\ IsNull(OutRows[i].severity_code)
           /\ IsNull(OutRows[i].surface_label)
           /\ IsNull(OutRows[j].date)
           /\ IsNull(OutRows[j].hour)
           /\ OutRows[j].victim_count = Some(1)
           /\ OutRows[j].severity_label = Some("Tue")

-----------------------------------------------------------------------------

LightingGroups ==
    {"Eclairage public", "Sans eclairage public", "Lumiere naturelle",
     "Non renseigne"}

\* the bucket the four-bucket rule gives a lighting code
LightingBucket(code) ==
    CASE code = Some(5) -> "Eclairage public"
      [] code \in {Some(3), Some(4)} -> "Sans eclairage public"
      [] code \in {Some(1), Some(2)} -> "Lumiere naturelle"
      [] OTHER -> "Non renseigne"

\* C13: lighting_group is a total function of the lighting code alone with
\* four results: 5 gives the public-lighting bucket, 3 and 4 the
\* no-public-lighting one, 1 and 2 the natural-daylight one, every other
\* code and null the not-specified one.  Every row of the cleaned table has
\* one of the four, the one of its lum code, and one row is produced for
\* each input row whatever its code.
C13_LightingGroup ==
    CleanDataReturned =>
        /\ \A i \in 1..Len(OutRows) :
               /\ ~IsNull(OutRows[i].lighting_group)
               /\ Val(OutRows[i].lighting_group) \in LightingGroups
               /\ Val(OutRows[i].lighting_group) = LightingBucket(OutRows[i].lum)
        /\ \A i, j \in 1..Len(OutRows) :
               OutRows[i].lum = OutRows[j].lum =>
                   OutRows[i].lighting_group = OutRows[j].lighting_group

\* a cleaned table with a row of code 4 and a row with a null code
C13_Witness ==
    /\ CleanDataReturned
    /\ Len(OutRows) = 2
    /\ OutRows[1].lum = Some(4)
    /\ OutRows[1].lighting_group = Some("Sans eclairage public")
    /\ IsNull(OutRows[2].lum)
    /\ OutRows[2].lighting_group = Some("Non renseigne")

====
